---- MODULE Spec2Model ----
(***************************************************************************)
(* Capitol Wire / HillPulse ingestion server (src/server.js).              *)
(*                                                                         *)
(* The source holds two deployment variants of the server:                 *)
(*   variant A (lines 1-252): POST /ingest fetches the post text,          *)
(*     summarizes it with Gemini (retry loop), saves and notifies;         *)
(*   variant B (lines 254-390): POST /ingest takes a pre-computed summary, *)
(*     inserts it and notifies.                                            *)
(* One process runs one variant against a PostgreSQL table `summaries`     *)
(* that outlives the process, so the table found at start may have been    *)
(* created by either variant's CREATE TABLE IF NOT EXISTS.                 *)
(*                                                                         *)
(* A handler is an async function: every action below is the resolution of *)
(* the promise a request awaits, followed by the handler's code up to its  *)
(* next await (or its response).  Requests interleave only at awaits.      *)
(***************************************************************************)
EXTENDS Integers, Sequences, FiniteSets, TLC

\* ------------------------------------------------------------------ bounds
\* Total number of POST /ingest requests accepted in one behaviour.
MaxIngests == 2

\* The largest table the feed specification starts from.
MaxRows == 52

\* ------------------------------------------------------- program constants
MAX_RETRIES == 5
delay == 8000
FEED_LIMIT == 50

Secret == "s3cret"
Null == "<null>"
TOPIC == "hillpulse_updates"
TITLE == "The Capitol Wire"

VARIABLES
    variant,         \* "A" | "B": which server variant this process runs
    GEMINI_KEY,      \* BOOLEAN: process.env.GEMINI_API_KEY is set
    INGEST_SECRET,   \* "" | Secret: process.env.INGEST_SECRET
    DATABASE_URL,    \* BOOLEAN: process.env.DATABASE_URL is set
    fcmInitialized,  \* BOOLEAN: admin.initializeApp succeeded
    schema,          \* "none" | "unique" | "plain": the summaries table
    store,           \* Seq of rows of table summaries, in insertion order
    now,             \* database clock (CURRENT_TIMESTAMP / NOW())
    published,       \* Seq of messages accepted by admin.messaging().send
    reqs,            \* request slot -> state of the handler running in it
    ingests          \* number of POST /ingest requests accepted so far

vars == <<variant, GEMINI_KEY, INGEST_SECRET, DATABASE_URL, fcmInitialized,
          schema, store, now, published, reqs, ingests>>

config == <<variant, GEMINI_KEY, INGEST_SECRET, DATABASE_URL, fcmInitialized>>

\* ------------------------------------------------------------ input domains
\* Post URLs a request may carry; "" is an absent or empty url.
Urls == {"https://x.com/alice/status/1", "https://twitter.com/bob/status/2"}

\* The credential header value h of a request: absent, the raw secret, the
\* bearer form of the secret, or a bearer form of something else.
Credentials == {"", Secret, "Bearer " \o Secret, "Bearer wrong"}

\* body.data of a variant A request: a bare url (text and author are to be
\* derived), a url with its text, a text with its author and no url, nothing.
Payloads ==
    {[url |-> u, text |-> "", author |-> Null] : u \in Urls \cup {""}}
    \cup {[url |-> u, text |-> "t", author |-> Null] : u \in Urls}
    \cup {[url |-> "", text |-> "t", author |-> "carol"]}

\* First text fragment of a Gemini success payload, as a sequence of
\* characters in which " " stands for any whitespace character.  <<>> is also
\* what a payload without candidates[0].content.parts[0].text yields.
Fragments == {<<>>, <<" ">>, <<"s">>, <<" ", "s", " ">>}

\* ------------------------------------------------------------------ helpers
\* String.prototype.trim on a sequence of characters.
RECURSIVE TrimLeft(_)
TrimLeft(s) ==
    IF s # <<>> /\ Head(s) = " " THEN TrimLeft(Tail(s)) ELSE s

RECURSIVE TrimRight(_)
TrimRight(s) ==
    IF s # <<>> /\ s[Len(s)] = " " THEN TrimRight(SubSeq(s, 1, Len(s) - 1)) ELSE s

trim(s) == TrimRight(TrimLeft(s))

\* url.match(/x\.com\/([^\/]+)\//): the handle of an x.com URL, Null otherwise.
UrlAuthor(url) ==
    IF url = "https://x.com/alice/status/1" THEN "alice" ELSE Null

\* Mutant: any bearer-style header is accepted.
assertAuthorizedAnyBearer(h) ==
    IF INGEST_SECRET = "" THEN TRUE
    ELSE h = INGEST_SECRET \/ h \in {"Bearer " \o Secret, "Bearer wrong"}

\* Variant A: assertAuthorized(req) on the header value h.
assertAuthorized(h) ==
    IF INGEST_SECRET = "" THEN TRUE
    ELSE h = INGEST_SECRET \/ h = "Bearer " \o INGEST_SECRET

\* Variant B: the bearer check of POST /ingest on the Authorization value h.
\* authHeader.split(' ')[1] of the enumerated credentials.
BearerToken(h) ==
    IF h = "Bearer " \o Secret THEN Secret
    ELSE IF h = "Bearer wrong" THEN "wrong"
    ELSE Null

\* authHeader.startsWith('Bearer ') of the enumerated credentials.
StartsWithBearer(h) == h \in {"Bearer " \o Secret, "Bearer wrong"}

\* An unset INGEST_SECRET is undefined in variant B: no token equals it, and
\* no token of the enumerated credentials is "".
bearerAuthorized(h) ==
    /\ h # ""
    /\ StartsWithBearer(h)
    /\ BearerToken(h) = INGEST_SECRET

\* Whether a credential is the configured shared secret (raw or bearer form).
\* Not part of the program: the measure the 401 contract is stated against.
CredentialMatches(h) ==
    /\ INGEST_SECRET # ""
    /\ h \in {INGEST_SECRET, "Bearer " \o INGEST_SECRET}

\* Rows of the store holding a given url.
RowsWithUrl(s, url) == {i \in 1..Len(s) : s[i].tweet_url = url}

\* ------------------------------------------------------------ request state
\* The handler's locals, the counters of the calls it issued, what it logged
\* and its response.  route: "ingest" | "feed"; status = 0: no response yet.
IdleReq ==
    [pc |-> "idle", route |-> "", credOk |-> FALSE,
     url |-> "", author |-> Null, text |-> "",
     fetches |-> 0, oembed |-> "", synd |-> "",
     attempt |-> 0, lastErr |-> "", lastFailure |-> "",
     calls |-> 0, delays |-> 0, waited |-> 0,
     summary |-> <<>>, summarized |-> FALSE,
     inserts |-> 0, insertErr |-> "", saved |-> FALSE,
     sends |-> 0, fcmErr |-> "", pushed |-> FALSE,
     status |-> 0, error |-> "", feed |-> <<>>]

\* res.status(status).json({ ok: false, error }) / res.json({ ok: true, ... })
Respond(q, status, error) ==
    [q EXCEPT !.pc = "done", !.status = status, !.error = error]

\* --------------------------------------------- Notification Dispatcher (A)
\* Mutant: an uninitialized SDK makes the dispatcher throw.
sendFCMNotificationThrows(q) ==
    IF ~fcmInitialized
    THEN Respond(q, 500, "Firebase app does not exist")
    ELSE [q EXCEPT !.pc = "await_fcm", !.sends = @ + 1]

\* sendFCMNotification up to its await: false at once when the SDK was never
\* initialized (the handler then responds), else admin.messaging().send.
sendFCMNotification(q) ==
    IF ~fcmInitialized
    THEN Respond([q EXCEPT !.pushed = FALSE, !.fcmErr = "Skipping FCM"], 200, "")
    ELSE [q EXCEPT !.pc = "await_fcm", !.sends = @ + 1]

\* The handler after saveSummaryToDB returned `saved`: line 223.  Variant A
\* calls the dispatcher whatever `saved` is.
AfterSave(q) == sendFCMNotification(q)

\* Mutant: the insert is issued but not awaited before the notification.
saveSummaryToDBNotAwaited(q) ==
    IF ~DATABASE_URL
    THEN AfterSave([q EXCEPT !.saved = FALSE, !.insertErr = "Skipping DB save"])
    ELSE AfterSave([q EXCEPT !.inserts = @ + 1])

\* ------------------------------------------------- Persistence Gateway (A)
\* saveSummaryToDB up to its await.
saveSummaryToDB(q) ==
    IF ~DATABASE_URL
    THEN AfterSave([q EXCEPT !.saved = FALSE, !.insertErr = "Skipping DB save"])
    ELSE [q EXCEPT !.pc = "await_insert", !.inserts = @ + 1]

\* ----------------------------------------------------- Summarization Client
\* e.message of a failed attempt: the request fails (or its body does not
\* parse), status 503, another non-OK status.
GeminiFailures == {"fetch failed", "Gemini overload 503", "Gemini error 500: "}

\* Mutant: the exhausted retries are answered with a generic message.
GeminiThrowGeneric(q) ==
    Respond(q, 500, "Internal Server Error")

\* throw new Error(`Gemini failed after ${MAX_RETRIES + 1} attempts: ...`),
\* caught by the handler: 500 with e.message.
GeminiThrow(q) ==
    Respond(q, 500,
            "Gemini failed after " \o ToString(MAX_RETRIES + 1) \o " attempts: " \o q.lastErr)

\* Mutant: the loop runs while attempt < MAX_RETRIES.
WhileLoopOffByOne(q) ==
    IF q.attempt < MAX_RETRIES
    THEN [q EXCEPT !.pc = "await_gemini", !.calls = @ + 1]
    ELSE GeminiThrow(q)

\* The head of the while loop: another fetch, or the throw after the loop.
WhileLoop(q) ==
    IF q.attempt <= MAX_RETRIES
    THEN [q EXCEPT !.pc = "await_gemini", !.calls = @ + 1]
    ELSE GeminiThrow(q)

\* Mutant: no delay after the last retry-able failure.
CatchBlockShortDelay(q, err) ==
    LET q1 == [q EXCEPT !.lastErr = err, !.attempt = @ + 1]
    IN  IF q1.attempt < MAX_RETRIES
        THEN [q1 EXCEPT !.pc = "await_delay", !.delays = @ + 1]
        ELSE WhileLoop(q1)

\* Mutant: the delay is taken after every failure, the last one included.
CatchBlockAlwaysDelay(q, err) ==
    LET q1 == [q EXCEPT !.lastErr = err, !.attempt = @ + 1]
    IN  [q1 EXCEPT !.pc = "await_delay", !.delays = @ + 1]

\* The catch block of the loop body: lines 157-165.
CatchBlock(q, err) ==
    LET q1 == [q EXCEPT !.lastErr = err, !.attempt = @ + 1]
    IN  IF q1.attempt <= MAX_RETRIES
        THEN [q1 EXCEPT !.pc = "await_delay", !.delays = @ + 1]
        ELSE WhileLoop(q1)

\* Mutant: the API key is not checked before the loop.
callGeminiSummaryNoKeyCheck(q) ==
    WhileLoop([q EXCEPT !.attempt = 0, !.lastErr = ""])

\* callGeminiSummary up to its first await.
callGeminiSummary(q) ==
    IF ~GEMINI_KEY
    THEN Respond(q, 500, "Missing GEMINI_API_KEY")
    ELSE WhileLoop([q EXCEPT !.attempt = 0, !.lastErr = ""])

\* ------------------------------------------------------------ handler (A)
\* Lines 215-219 once fetchTweetText returned `text` (or text was supplied).
\* The fetcher's locals are gone when it has returned a text.
WithText(q, text) ==
    IF text = ""
    THEN Respond([q EXCEPT !.text = ""], 400, "Missing tweet text")
    ELSE callGeminiSummary([q EXCEPT !.text = text, !.oembed = "", !.synd = ""])

\* POST /ingest of variant A up to its first await.
ingestA(h, url, text, author) ==
    IF ~assertAuthorized(h)
    THEN Respond([IdleReq EXCEPT !.route = "ingest", !.credOk = CredentialMatches(h)],
                 401, "Unauthorized")
    ELSE LET q == [IdleReq EXCEPT
                     !.route = "ingest",
                     !.credOk = CredentialMatches(h),
                     !.url = url,
                     !.author = IF author = Null /\ url # "" THEN UrlAuthor(url) ELSE author]
         IN  IF text = "" /\ url # ""
             THEN [q EXCEPT !.pc = "await_oembed", !.fetches = 1]
             ELSE WithText(q, text)

\* --------------------------------------------------------- Content Fetcher
\* What the primary (oEmbed) lookup can do: the request or the body parse
\* throws, a non-OK status, an OK body whose html has no <p>, one whose first
\* <p> is empty, one whose first <p> holds text.
OEmbedOutcomes == {"neterr", "badjson", "not_ok", "no_match", "match_empty", "match_text"}

\* What the secondary (syndication) lookup can do.
SyndOutcomes == {"neterr", "badjson", "not_ok", "no_text", "text"}

\* fetchTweetText after the primary lookup resolved: lines 175-185.
AfterOEmbed(q, o) ==
    LET q1 == [q EXCEPT !.oembed = o]
    IN  CASE o \in {"neterr", "badjson"} -> WithText(q1, "")
          [] o = "match_text"            -> WithText(q1, "t")
          [] o = "match_empty"           -> WithText(q1, "")
          [] OTHER -> [q1 EXCEPT !.pc = "await_synd", !.fetches = @ + 1]

\* Mutant: a failing secondary lookup is not caught.
AfterSyndRethrow(q, o) ==
    LET q1 == [q EXCEPT !.synd = o]
    IN  CASE o = "text" -> WithText(q1, "t")
          [] o \in {"neterr", "badjson"} -> Respond(q1, 500, "fetch failed")
          [] OTHER -> WithText(q1, "")

\* fetchTweetText after the secondary lookup resolved: lines 185-193.
AfterSynd(q, o) ==
    LET q1 == [q EXCEPT !.synd = o]
    IN  IF o = "text" THEN WithText(q1, "t") ELSE WithText(q1, "")

\* ------------------------------------------------------------- the database
NewRow(summary, author, url, t) ==
    [id |-> Len(store) + 1, created_at |-> t,
     summary_text |-> summary, tweet_author |-> author, tweet_url |-> url]

\* Mutant: the insert has no ON CONFLICT clause and the table no constraint.
InsertWithoutConflictClause(summary, author, url, t, down) ==
    CASE down ->
           [rows |-> store, rowCount |-> 0, err |-> "connection error"]
      [] schema = "none" ->
           [rows |-> store, rowCount |-> 0, err |-> "relation summaries does not exist"]
      [] OTHER ->
           [rows |-> Append(store, NewRow(summary, author, url, t)),
            rowCount |-> 1, err |-> ""]

\* INSERT ... ON CONFLICT (tweet_url) DO NOTHING RETURNING id (variant A).
\* Result: the table afterwards, the row count, the error raised ("" none).
InsertOnConflict(summary, author, url, t, down) ==
    CASE down ->
           [rows |-> store, rowCount |-> 0, err |-> "connection error"]
      [] schema = "none" ->
           [rows |-> store, rowCount |-> 0, err |-> "relation summaries does not exist"]
      [] schema = "plain" ->
           [rows |-> store, rowCount |-> 0,
            err |-> "no unique constraint matching the ON CONFLICT specification"]
      [] RowsWithUrl(store, url) # {} ->
           [rows |-> store, rowCount |-> 0, err |-> ""]
      [] OTHER ->
           [rows |-> Append(store, NewRow(summary, author, url, t)),
            rowCount |-> 1, err |-> ""]

\* INSERT ... VALUES ($1, $2, $3, NOW()) RETURNING * (variant B).
InsertPlain(summary, author, url, t, down) ==
    CASE down ->
           [rows |-> store, rowCount |-> 0, err |-> "connection error"]
      [] schema = "none" ->
           [rows |-> store, rowCount |-> 0, err |-> "relation summaries does not exist"]
      [] schema = "unique" /\ RowsWithUrl(store, url) # {} ->
           [rows |-> store, rowCount |-> 0, err |-> "duplicate key value"]
      [] OTHER ->
           [rows |-> Append(store, NewRow(summary, author, url, t)),
            rowCount |-> 1, err |-> ""]

\* How far the database clock has moved on since the last insert when an
\* insert reads it: two inserts may read the same timestamp.  The first
\* insert of a table sets the origin.
Ticks == IF store = <<>> THEN {1} ELSE {0, 1}

\* Mutant: rowCount is compared with 1 instead of 0.
AfterInsertARowCountOff(q, res) ==
    IF res.err # ""
    THEN AfterSave([q EXCEPT !.saved = FALSE, !.insertErr = res.err])
    ELSE AfterSave([q EXCEPT !.saved = res.rowCount > 1])

\* Mutant: a failed insert is rethrown to the handler.
AfterInsertARethrow(q, res) ==
    IF res.err # ""
    THEN Respond([q EXCEPT !.saved = FALSE, !.insertErr = res.err], 500, res.err)
    ELSE AfterSave([q EXCEPT !.saved = res.rowCount > 0])

\* saveSummaryToDB after its query resolved: lines 66-71.
AfterInsertA(q, res) ==
    IF res.err # ""
    THEN AfterSave([q EXCEPT !.saved = FALSE, !.insertErr = res.err])
    ELSE AfterSave([q EXCEPT !.saved = res.rowCount > 0])

\* admin.apps.length of variant B.
adminAppsLength == IF fcmInitialized THEN 1 ELSE 0

\* POST /ingest of variant B after its insert resolved: lines 354-385.
AfterInsertB(q, res) ==
    IF res.err # ""
    THEN Respond([q EXCEPT !.insertErr = res.err], 500, "Internal Server Error")
    ELSE LET q1 == [q EXCEPT !.saved = TRUE]
         IN  IF adminAppsLength > 0
             THEN [q1 EXCEPT !.pc = "await_fcm", !.sends = @ + 1]
             ELSE Respond(q1, 200, "")

\* POST /ingest of variant B up to its first await.
ingestB(h, summary_text, tweet_author, tweet_url) ==
    IF ~bearerAuthorized(h)
    THEN Respond([IdleReq EXCEPT !.route = "ingest", !.credOk = CredentialMatches(h)],
                 401, "Unauthorized")
    ELSE LET q == [IdleReq EXCEPT !.route = "ingest", !.credOk = CredentialMatches(h)]
         IN  IF summary_text = <<>> \/ tweet_author = "" \/ tweet_url = ""
             THEN Respond(q, 400, "Missing required fields")
             ELSE [q EXCEPT !.summary = summary_text, !.author = tweet_author,
                            !.url = tweet_url,
                            !.pc = "await_insert", !.inserts = @ + 1]

\* The message handed to admin.messaging().send.
Message(q) ==
    [topic |-> TOPIC, title |-> TITLE, body |-> q.summary, url |-> q.url]

\* Mutant: ORDER BY created_at ASC.
BeforeAscending(a, b, tie) ==
    \/ a.created_at < b.created_at
    \/ /\ a.created_at = b.created_at
       /\ IF tie = "asc" THEN a.id < b.id ELSE a.id > b.id

\* SELECT ... ORDER BY created_at DESC LIMIT 50.  Rows of equal created_at
\* come in an order the database chooses: by ascending or by descending id.
Before(a, b, tie) ==
    \/ a.created_at > b.created_at
    \/ /\ a.created_at = b.created_at
       /\ IF tie = "asc" THEN a.id < b.id ELSE a.id > b.id

Rank(s, i, tie) == Cardinality({j \in 1..Len(s) : Before(s[j], s[i], tie)})

OrderByCreatedAtDesc(s, tie) ==
    [k \in 1..Len(s) |-> s[CHOOSE i \in 1..Len(s) : Rank(s, i, tie) = k - 1]]

Limit(s, n) == SubSeq(s, 1, IF Len(s) < n THEN Len(s) ELSE n)

Columns(row) ==
    [summary_text |-> row.summary_text, tweet_author |-> row.tweet_author,
     tweet_url |-> row.tweet_url, created_at |-> row.created_at]

SelectFeed(s, tie) ==
    LET top == Limit(OrderByCreatedAtDesc(s, tie), FEED_LIMIT)
    IN  [k \in 1..Len(top) |-> Columns(top[k])]

\* The feed query: its rows, or the error raised ("" none).  Variant A's
\* query() throws without DATABASE_URL.
Select(tie, down) ==
    CASE variant = "A" /\ ~DATABASE_URL ->
           [rows |-> <<>>, err |-> "Missing DATABASE_URL environment variable."]
      [] down -> [rows |-> <<>>, err |-> "connection error"]
      [] schema = "none" -> [rows |-> <<>>, err |-> "relation summaries does not exist"]
      [] OTHER -> [rows |-> SelectFeed(store, tie), err |-> ""]

\* GET /feed up to its await, and after it.
feedHandler == [IdleReq EXCEPT !.route = "feed", !.pc = "await_feed"]

AfterFeed(q, res) ==
    IF res.err # ""
    THEN Respond(q, 500, IF variant = "A" THEN res.err ELSE "Internal Server Error")
    ELSE Respond([q EXCEPT !.feed = res.rows], 200, "")

\* The startup schema check: CREATE TABLE IF NOT EXISTS on the table found;
\* a failure is logged and swallowed.  Variant A declares tweet_url UNIQUE,
\* variant B does not.
ensureDatabaseSchema(found, down) ==
    IF DATABASE_URL /\ ~down /\ found = "none" THEN "unique" ELSE found

initDb(found, down) ==
    IF ~down /\ found = "none" THEN "plain" ELSE found

\* ------------------------------------------------------------------ actions
Init ==
    /\ variant \in {"A", "B"}
    /\ GEMINI_KEY \in BOOLEAN
    /\ INGEST_SECRET \in {"", Secret}
    /\ DATABASE_URL \in BOOLEAN
    /\ fcmInitialized \in BOOLEAN
    \* variant B reads no GEMINI_API_KEY and relies on DATABASE_URL (line 268)
    /\ variant = "B" => (~GEMINI_KEY /\ DATABASE_URL)
    \* the table as the startup schema check left it, whatever it found
    /\ \E found \in {"none", "unique", "plain"}, down \in BOOLEAN :
          schema = IF variant = "A" THEN ensureDatabaseSchema(found, down)
                                    ELSE initDb(found, down)
    /\ store = <<>>
    /\ now = 0
    /\ published = <<>>
    \* one handler slot: requests are served one after another
    /\ reqs = [r \in {1} |-> IdleReq]
    /\ ingests = 0

\* A POST /ingest request arrives at variant A.
IngestA(r) ==
    /\ variant = "A"
    /\ reqs[r].pc = "idle"
    /\ ingests < MaxIngests
    /\ \E h \in Credentials, data \in Payloads :
          reqs' = [reqs EXCEPT ![r] = ingestA(h, data.url, data.text, data.author)]
    /\ ingests' = ingests + 1
    /\ UNCHANGED <<config, schema, store, now, published>>

\* fetchTweetText: the primary lookup resolves.
OEmbedResolve(r) ==
    /\ reqs[r].pc = "await_oembed"
    /\ \E o \in OEmbedOutcomes : reqs' = [reqs EXCEPT ![r] = AfterOEmbed(@, o)]
    /\ UNCHANGED <<config, schema, store, now, published, ingests>>

\* fetchTweetText: the secondary lookup resolves.
SyndResolve(r) ==
    /\ reqs[r].pc = "await_synd"
    /\ \E o \in SyndOutcomes : reqs' = [reqs EXCEPT ![r] = AfterSynd(@, o)]
    /\ UNCHANGED <<config, schema, store, now, published, ingests>>

\* callGeminiSummary: the outbound call fails (request error, 503, other
\* non-OK status, body that does not parse): the catch block runs.
GeminiFail(r) ==
    /\ reqs[r].pc = "await_gemini"
    /\ \E err \in GeminiFailures :
          reqs' = [reqs EXCEPT ![r] = CatchBlock([@ EXCEPT !.lastFailure = err], err)]
    /\ UNCHANGED <<config, schema, store, now, published, ingests>>

\* callGeminiSummary: the outbound call succeeds; the trimmed first text
\* fragment ('' when the payload has none) is returned, the loop's locals
\* are gone, and the handler goes on to saveSummaryToDB.
GeminiOk(r) ==
    /\ reqs[r].pc = "await_gemini"
    /\ \E out \in Fragments :
          reqs' = [reqs EXCEPT ![r] =
                      saveSummaryToDB([@ EXCEPT !.summary = trim(out), !.summarized = TRUE,
                                                !.lastErr = "", !.lastFailure = ""])]
    /\ UNCHANGED <<config, schema, store, now, published, ingests>>

\* callGeminiSummary: the 8 s timer between two attempts fires.
DelayResolve(r) ==
    /\ reqs[r].pc = "await_delay"
    /\ reqs' = [reqs EXCEPT ![r] = WhileLoop([@ EXCEPT !.waited = @ + delay])]
    /\ UNCHANGED <<config, schema, store, now, published, ingests>>

\* saveSummaryToDB: the insert query resolves (variant A).
InsertResolveA(r) ==
    /\ variant = "A"
    /\ reqs[r].pc = "await_insert"
    /\ \E down \in BOOLEAN, dt \in Ticks :
          LET q   == reqs[r]
              res == InsertOnConflict(q.summary, q.author, q.url, now + dt, down)
          IN  /\ store' = res.rows
              /\ now' = IF res.rowCount > 0 THEN now + dt ELSE now
              /\ reqs' = [reqs EXCEPT ![r] = AfterInsertA(q, res)]
    /\ UNCHANGED <<config, schema, published, ingests>>

\* sendFCMNotification: admin.messaging().send resolves or rejects (variant A).
FcmResolveA(r) ==
    /\ variant = "A"
    /\ reqs[r].pc = "await_fcm"
    /\ \E sent \in BOOLEAN :
          /\ published' = IF sent THEN Append(published, Message(reqs[r])) ELSE published
          /\ reqs' = [reqs EXCEPT ![r] =
                Respond([@ EXCEPT !.pushed = sent,
                                  !.fcmErr = IF sent THEN "" ELSE "FCM Send Failed"],
                        200, "")]
    /\ UNCHANGED <<config, schema, store, now, ingests>>

\* A POST /ingest request arrives at variant B.
IngestB(r) ==
    /\ variant = "B"
    /\ reqs[r].pc = "idle"
    /\ ingests < MaxIngests
    /\ \E h \in Credentials, summary_text \in {<<>>, <<"s">>},
          tweet_author \in {"", "bob"}, tweet_url \in Urls \cup {""} :
          reqs' = [reqs EXCEPT ![r] = ingestB(h, summary_text, tweet_author, tweet_url)]
    /\ ingests' = ingests + 1
    /\ UNCHANGED <<config, schema, store, now, published>>

\* Variant B: the insert query resolves.
InsertResolveB(r) ==
    /\ variant = "B"
    /\ reqs[r].pc = "await_insert"
    /\ \E down \in BOOLEAN, dt \in Ticks :
          LET q   == reqs[r]
              res == InsertPlain(q.summary, q.author, q.url, now + dt, down)
          IN  /\ store' = res.rows
              /\ now' = IF res.rowCount > 0 THEN now + dt ELSE now
              /\ reqs' = [reqs EXCEPT ![r] = AfterInsertB(q, res)]
    /\ UNCHANGED <<config, schema, published, ingests>>

\* Variant B: admin.messaging().send resolves or rejects; 200 either way.
FcmResolveB(r) ==
    /\ variant = "B"
    /\ reqs[r].pc = "await_fcm"
    /\ \E sent \in BOOLEAN :
          /\ published' = IF sent THEN Append(published, Message(reqs[r])) ELSE published
          /\ reqs' = [reqs EXCEPT ![r] =
                Respond([@ EXCEPT !.pushed = sent,
                                  !.fcmErr = IF sent THEN "" ELSE "FCM Send Error"],
                        200, "")]
    /\ UNCHANGED <<config, schema, store, now, ingests>>

\* A GET /feed request arrives (both variants): the query is issued.
FeedStart(r) ==
    /\ reqs[r].pc = "idle"
    /\ reqs' = [reqs EXCEPT ![r] = feedHandler]
    /\ UNCHANGED <<config, schema, store, now, published, ingests>>

\* GET /feed: the query resolves and the response is sent.
FeedResolve(r) ==
    /\ reqs[r].pc = "await_feed"
    /\ \E down \in BOOLEAN, tie \in {"asc", "desc"} :
          reqs' = [reqs EXCEPT ![r] = AfterFeed(@, Select(tie, down))]
    /\ UNCHANGED <<config, schema, store, now, published, ingests>>

\* The response has been sent and the handler is gone.
Close(r) ==
    /\ reqs[r].pc = "done"
    /\ reqs' = [reqs EXCEPT ![r] = IdleReq]
    /\ UNCHANGED <<config, schema, store, now, published, ingests>>

Next ==
    \/ \E r \in DOMAIN reqs : FeedStart(r)
    \/ \E r \in DOMAIN reqs : FeedResolve(r)
    \/ \E r \in DOMAIN reqs : IngestA(r)
    \/ \E r \in DOMAIN reqs : OEmbedResolve(r)
    \/ \E r \in DOMAIN reqs : SyndResolve(r)
    \/ \E r \in DOMAIN reqs : GeminiFail(r)
    \/ \E r \in DOMAIN reqs : GeminiOk(r)
    \/ \E r \in DOMAIN reqs : DelayResolve(r)
    \/ \E r \in DOMAIN reqs : InsertResolveA(r)
    \/ \E r \in DOMAIN reqs : FcmResolveA(r)
    \/ \E r \in DOMAIN reqs : IngestB(r)
    \/ \E r \in DOMAIN reqs : InsertResolveB(r)
    \/ \E r \in DOMAIN reqs : FcmResolveB(r)
    \/ \E r \in DOMAIN reqs : Close(r)

Spec == Init /\ [][Next]_vars

\* ------------------------------------------------ the feed over a full table
\* The table outlives the server: a start may find it with any number of rows.
\* The created_at of row i of n, by the history that filled the table: one
\* insert per clock tick, two per tick, all within one tick, or transactions
\* that took their ids in the reverse order of their start.
Histories == {"distinct", "pairs", "same", "reversed"}

Stamp(history, i, n) ==
    CASE history = "distinct" -> i
      [] history = "pairs"    -> (i + 1) \div 2
      [] history = "same"     -> 1
      [] OTHER                -> n + 1 - i

StoredRows(n, history) ==
    [i \in 1..n |->
        [id |-> i, created_at |-> Stamp(history, i, n),
         summary_text |-> <<"s">>, tweet_author |-> "bob",
         tweet_url |-> "https://x.com/bob/status/" \o ToString(i)]]

\* Table sizes around the empty table and around the LIMIT of the query.
TableSizes == {n \in 0..MaxRows : n <= 2 \/ n >= FEED_LIMIT - 1}

InitFeed ==
    /\ variant \in {"A", "B"}
    /\ GEMINI_KEY = (variant = "A")
    /\ INGEST_SECRET = Secret
    /\ DATABASE_URL \in BOOLEAN
    /\ variant = "B" => DATABASE_URL
    /\ fcmInitialized = FALSE
    /\ schema \in {"unique", "plain"}
    /\ \E n \in TableSizes, history \in Histories :
          /\ store = StoredRows(n, history)
          /\ now = n
    /\ published = <<>>
    /\ reqs = [r \in {1} |-> IdleReq]
    /\ ingests = 0

NextFeed ==
    \/ \E r \in DOMAIN reqs : FeedStart(r)
    \/ \E r \in DOMAIN reqs : FeedResolve(r)
    \/ \E r \in DOMAIN reqs : Close(r)

SpecFeed == InitFeed /\ [][NextFeed]_vars

\* ------------------------------------------ two handlers at the same insert
\* Node runs the handlers of two requests interleaved at their awaits.  A
\* POST /ingest of variant A that carried its text, got the summary from the
\* first outbound call and now awaits the insert query of saveSummaryToDB.
AwaitingInsert(data, out) ==
    saveSummaryToDB([ingestA(Secret, data.url, data.text, data.author) EXCEPT
                        !.summary = trim(out), !.summarized = TRUE])

\* Request bodies that carry both the URL and the text.
FullPayloads == {data \in Payloads : data.url # "" /\ data.text # ""}

InitConc ==
    /\ variant = "A"
    /\ GEMINI_KEY = TRUE
    /\ INGEST_SECRET = Secret
    /\ DATABASE_URL = TRUE
    /\ fcmInitialized \in BOOLEAN
    /\ \E found \in {"none", "unique", "plain"}, down \in BOOLEAN :
          schema = ensureDatabaseSchema(found, down)
    /\ store = <<>>
    /\ now = 0
    /\ published = <<>>
    /\ \E d1 \in FullPayloads, d2 \in FullPayloads, o1 \in Fragments, o2 \in Fragments :
          reqs = [r \in {1, 2} |-> IF r = 1 THEN AwaitingInsert(d1, o1)
                                            ELSE AwaitingInsert(d2, o2)]
    /\ ingests = 2

\* The two handlers run on to their responses; the responses stay in view.
NextConc ==
    \/ \E r \in DOMAIN reqs : InsertResolveA(r)
    \/ \E r \in DOMAIN reqs : FcmResolveA(r)

SpecConc == InitConc /\ [][NextConc]_vars

\* ===================================================================== claims
Slots == DOMAIN reqs

\* callGeminiSummary of request q has ended by throwing.
GeminiErrored(q) ==
    /\ variant = "A"
    /\ q.route = "ingest"
    /\ q.pc = "done"
    /\ q.status = 500
    /\ ~q.summarized

\* callGeminiSummary of request q is still running.
GeminiRunning(q) == q.pc \in {"await_gemini", "await_delay"}

\* C1: when every outbound call of a callGeminiSummary invocation has failed
\* and the invocation has ended, it has issued exactly 6 calls and has failed
\* with an error carrying the reason of the last failure; no invocation ever
\* issues more than 6 calls.
C1_AlwaysFailingBackendSixCalls ==
    \A r \in Slots :
        LET q == reqs[r]
        IN  /\ q.calls <= 6
            /\ (~GeminiRunning(q) /\ q.calls > 0 /\ q.attempt = q.calls)
                  => /\ q.calls = 6
                     /\ GeminiErrored(q)
                     /\ q.error = "Gemini failed after 6 attempts: " \o q.lastFailure

C1_Witness ==
    \E r \in Slots :
        /\ GeminiErrored(reqs[r])
        /\ reqs[r].calls = 6
        /\ reqs[r].lastFailure = "Gemini overload 503"
        /\ reqs[r].error = "Gemini failed after 6 attempts: Gemini overload 503"

\* C2: when callGeminiSummary has returned a result after k failed calls, it
\* has issued exactly k + 1 calls (none after the successful one), 0 <= k <= 5,
\* and has completed one 8000 ms delay after each of the k failures.
C2_SuccessAfterKFailures ==
    \A r \in Slots :
        LET q == reqs[r]
        IN  q.summarized
              => /\ ~GeminiRunning(q)
                 /\ q.status \in {0, 200}
                 /\ q.attempt \in 0..5
                 /\ q.calls = q.attempt + 1
                 /\ q.delays = q.attempt
                 /\ q.waited = q.attempt * 8000

C2_Witness ==
    \E r \in Slots :
        /\ reqs[r].summarized
        /\ reqs[r].attempt = 3
        /\ reqs[r].calls = 4
        /\ reqs[r].waited = 24000
        /\ reqs[r].summary = <<"s">>

\* C3 as stated: whenever callGeminiSummary has ended in an error, all 6
\* outbound attempts have been made.
C3_ErrorOnlyAfterSixAttempts ==
    \A r \in Slots : GeminiErrored(reqs[r]) => reqs[r].calls = 6

\* C3 amended: callGeminiSummary ends in an error either with the API key
\* configured and all 6 attempts made and failed, or with no API key
\* configured, at once and without any attempt.
C3_ErrorAfterSixAttemptsOrWithoutKey ==
    \A r \in Slots :
        LET q == reqs[r]
        IN  GeminiErrored(q)
              => \/ GEMINI_KEY /\ q.calls = 6 /\ q.attempt = 6 /\ q.delays = 5
                 \/ ~GEMINI_KEY /\ q.calls = 0 /\ q.delays = 0
                       /\ q.error = "Missing GEMINI_API_KEY"

C3_Witness ==
    \E r \in Slots :
        /\ GeminiErrored(reqs[r])
        /\ GEMINI_KEY
        /\ reqs[r].attempt = 6
        /\ reqs[r].lastFailure = "fetch failed"

\* saveSummaryToDB of the request in slot r returns in this step: at once
\* (storage not configured) or when its insert query resolves.
SaveReturns(r) ==
    /\ variant = "A"
    /\ reqs[r].pc \in {"await_gemini", "await_insert"}
    /\ reqs'[r].summarized
    /\ reqs'[r].pc \in {"await_fcm", "done"}

FeedUrls(rows) == {rows[k].tweet_url : k \in DOMAIN rows}

\* C4: when saveSummaryToDB is called with a URL that is already stored, it
\* reports inserted = false, raises no error, and leaves the store as it was:
\* the URL still has exactly one row.
C4_SecondInsertIsNoOp ==
    [][\A r \in Slots :
          (SaveReturns(r) /\ RowsWithUrl(store, reqs[r].url) # {})
             => /\ ~reqs'[r].saved
                /\ reqs'[r].status # 500
                /\ store' = store
                /\ Cardinality(RowsWithUrl(store', reqs[r].url)) = 1]_vars

C4_Witness ==
    \E r \in Slots :
        /\ variant = "A"
        /\ reqs[r].pc \in {"await_fcm", "done"}
        /\ reqs[r].inserts = 1
        /\ ~reqs[r].saved
        /\ reqs[r].insertErr = ""
        /\ reqs[r].status # 500
        /\ Cardinality(RowsWithUrl(store, reqs[r].url)) = 1

\* C5: no two stored records share the same (non-null) tweet_url, whatever
\* POST /ingest requests either handler has served.
C5_UniqueTweetUrl ==
    \A i, j \in 1..Len(store) :
        (i # j /\ store[i].tweet_url # Null) => store[i].tweet_url # store[j].tweet_url

\* C6 as stated: saveSummaryToDB called with a URL that is not stored reports
\* inserted = true, and a feed query then returns a record with that URL.
C6_NewUrlIsInserted ==
    [][\A r \in Slots :
          (SaveReturns(r) /\ RowsWithUrl(store, reqs[r].url) = {})
             => /\ reqs'[r].saved
                /\ \A tie \in {"asc", "desc"} :
                      reqs[r].url \in FeedUrls(SelectFeed(store', tie))]_vars

\* C6 amended: saveSummaryToDB called with a URL that is not stored, with the
\* storage configured and the insert query raising no error, reports
\* inserted = true and appends one record with that URL, which a feed query
\* then returns; and a GET /feed that succeeds returns the record inserted
\* last.
C6_NewUrlIsInsertedWhenQuerySucceeds ==
    [][\A r \in Slots :
          /\ (SaveReturns(r) /\ RowsWithUrl(store, reqs[r].url) = {}
                  /\ reqs'[r].insertErr = "")
                => /\ reqs'[r].saved
                   /\ Len(store') = Len(store) + 1
                   /\ SubSeq(store', 1, Len(store)) = store
                   /\ store'[Len(store')].tweet_url = reqs[r].url
                   /\ store'[Len(store')].summary_text = reqs[r].summary
                   /\ \A tie \in {"asc", "desc"} :
                         reqs[r].url \in FeedUrls(SelectFeed(store', tie))
          /\ (reqs[r].pc = "await_feed" /\ reqs'[r].status = 200 /\ store # <<>>)
                => store[Len(store)].tweet_url \in FeedUrls(reqs'[r].feed)]_vars

C6_Witness ==
    \E r \in Slots :
        /\ variant = "A"
        /\ reqs[r].route = "feed"
        /\ reqs[r].status = 200
        /\ Len(store) = 2
        /\ FeedUrls(reqs[r].feed) = Urls

\* A POST /ingest request arrives in slot r in this step.
Arrives(r) == reqs[r].pc = "idle" /\ reqs'[r].route = "ingest"

\* The request in slot r' is answered 401 and has had no effect.
Rejected(r) ==
    /\ reqs'[r].pc = "done"
    /\ reqs'[r].status = 401
    /\ reqs'[r].fetches = 0
    /\ reqs'[r].calls = 0
    /\ reqs'[r].inserts = 0
    /\ reqs'[r].sends = 0
    /\ store' = store
    /\ published' = published

\* Nothing follows a 401 but the end of the handler.
RejectedStays(r) ==
    reqs[r].status = 401 => reqs'[r] = IdleReq /\ store' = store /\ published' = published

\* C7 as stated: a POST /ingest whose credential is missing or is not the
\* shared secret is answered 401 and has no side effect.
C7_BadCredentialRejected ==
    [][\A r \in Slots :
          /\ (Arrives(r) /\ ~reqs'[r].credOk) => Rejected(r)
          /\ RejectedStays(r)]_vars

\* C7 amended: with a shared secret configured, a POST /ingest whose
\* credential is missing or is not that secret is answered 401 and has no
\* side effect.  With no secret configured variant A rejects no request,
\* variant B rejects every request.
C7_BadCredentialRejectedWhenSecretSet ==
    [][\A r \in Slots :
          /\ (Arrives(r) /\ ~reqs'[r].credOk /\ INGEST_SECRET # "") => Rejected(r)
          /\ (Arrives(r) /\ INGEST_SECRET = "" /\ variant = "A") => reqs'[r].status # 401
          /\ (Arrives(r) /\ INGEST_SECRET = "" /\ variant = "B") => Rejected(r)
          /\ RejectedStays(r)]_vars

C7_Witness ==
    \E r \in Slots :
        /\ INGEST_SECRET = Secret
        /\ reqs[r].route = "ingest"
        /\ ~reqs[r].credOk
        /\ reqs[r].status = 401
        /\ store # <<>>

\* C8: an authorized variant A request for which no text was supplied and
\* none was fetched (no url, or the fetcher returned '') is answered 400, not
\* 500, and no summarization call, insert or notification is made for it.
C8_NoTextIs400 ==
    \A r \in Slots :
        LET q == reqs[r]
        IN  (variant = "A" /\ q.route = "ingest" /\ q.status # 401 /\ q.text = ""
                /\ q.pc \notin {"await_oembed", "await_synd"})
              => /\ q.pc = "done"
                 /\ q.status = 400
                 /\ q.calls = 0
                 /\ q.inserts = 0
                 /\ q.sends = 0

C8_Witness ==
    \E r \in Slots :
        /\ variant = "A"
        /\ reqs[r].status = 400
        /\ reqs[r].fetches = 2
        /\ reqs[r].synd = "neterr"
        /\ reqs[r].calls = 0

\* C9: a notification is dispatched for a request only after its insert
\* reported inserted = true.
C9_NotifyOnlyAfterInsert ==
    \A r \in Slots : reqs[r].sends > 0 => reqs[r].saved

\* The request in slot r is an ingestion whose steps before the notification
\* have succeeded: the summary was obtained (variant A), the insert succeeded
\* (variant B).
ReachedNotify(q) ==
    /\ q.route = "ingest"
    /\ IF variant = "A" THEN q.summarized ELSE q.saved

\* C10: an ingestion request that got as far as the notification is answered
\* 200 with ok = true whether the dispatch succeeds, fails or is skipped
\* because the SDK was never initialized; the dispatcher's flag is true
\* exactly when a message was published.
C10_NotificationNeverFailsRequest ==
    [][\A r \in Slots :
          (reqs[r].pc # "done" /\ reqs'[r].pc = "done" /\ ReachedNotify(reqs'[r]))
             => /\ reqs'[r].status = 200
                /\ reqs'[r].error = ""
                /\ reqs'[r].pushed = (published' # published)
                /\ ~fcmInitialized => (reqs'[r].sends = 0 /\ ~reqs'[r].pushed)]_vars

C10_Witness ==
    \E r \in Slots :
        /\ reqs[r].pc = "done"
        /\ ReachedNotify(reqs[r])
        /\ reqs[r].sends = 1
        /\ ~reqs[r].pushed
        /\ reqs[r].fcmErr # ""
        /\ reqs[r].status = 200

\* The request in slot r has used up the retries of callGeminiSummary: its
\* sixth outbound call has failed.
RetriesExhausted(q) ==
    /\ variant = "A"
    /\ q.route = "ingest"
    /\ q.attempt > MAX_RETRIES

\* C11: the step in which the sixth outbound call of an ingestion request
\* fails answers the request with 500 and the message "Gemini failed after 6
\* attempts: <reason of the last failure>"; that request has issued no insert
\* and no notification, and the step leaves the store and the published
\* messages as they were; closing the answered request leaves them alone too.
C11_ExhaustedRetriesAnswer500 ==
    [][\A r \in Slots :
          /\ (GeminiRunning(reqs[r]) /\ RetriesExhausted(reqs'[r]))
                => /\ reqs'[r].pc = "done"
                   /\ reqs'[r].status = 500
                   /\ reqs'[r].error =
                         "Gemini failed after 6 attempts: " \o reqs'[r].lastFailure
                   /\ reqs'[r].lastFailure \in GeminiFailures
                   /\ reqs'[r].inserts = 0 /\ ~reqs'[r].saved
                   /\ reqs'[r].sends = 0 /\ ~reqs'[r].pushed
                   /\ store' = store
                   /\ published' = published
          /\ RetriesExhausted(reqs[r])
                => /\ reqs[r].pc = "done"
                   /\ store' = store
                   /\ published' = published]_vars

C11_Witness ==
    \E r \in Slots :
        /\ RetriesExhausted(reqs[r])
        /\ reqs[r].status = 500
        /\ reqs[r].error = "Gemini failed after 6 attempts: fetch failed"
        /\ reqs[r].inserts = 0
        /\ reqs[r].sends = 0
        /\ DATABASE_URL
        /\ fcmInitialized

\* The insert of the request in slot r has failed or was skipped because no
\* storage backend is configured.
PersistenceFailed(q) ==
    /\ variant = "A"
    /\ q.route = "ingest"
    /\ q.summarized
    /\ q.insertErr # ""

\* C12: in variant A, once the summary was obtained and the insert failed
\* (no DATABASE_URL, or the query raised), the request is never answered with
\* an error: saved is false, and when the response is sent it is 200 with
\* ok = true and the summary.
C12_PersistenceFailureStill200 ==
    \A r \in Slots :
        LET q == reqs[r]
        IN  PersistenceFailed(q)
               => /\ ~q.saved
                  /\ q.error = ""
                  /\ q.pc \in {"await_fcm", "done"}
                  /\ q.pc = "done" => q.status = 200
                  /\ q.pc # "done" => q.status = 0
                  /\ (q.inserts = 0) = ~DATABASE_URL

C12_Witness ==
    \E r \in Slots :
        /\ PersistenceFailed(reqs[r])
        /\ reqs[r].pc = "done"
        /\ reqs[r].status = 200
        /\ reqs[r].insertErr = "connection error"
        /\ reqs[r].summary = <<"s">>
        /\ ~reqs[r].saved

\* The external calls the request q has outstanding: the handler awaits one
\* promise at a time.
Outstanding(q) ==
    CASE q.pc \in {"await_oembed", "await_synd"} -> {"fetch"}
      [] q.pc = "await_gemini" -> {"summarize"}
      [] q.pc = "await_insert" -> {"persist"}
      [] q.pc = "await_fcm" -> {"notify"}
      [] OTHER -> {}

\* C15: within one request of variant A's POST /ingest a lookup of
\* fetchTweetText starts only before any summarization call, a summarization
\* call starts only when no lookup is outstanding and the text is there, the
\* insert starts only in the step in which the summarization call returned
\* its result, the notification starts only in the step in which the insert
\* resolved (or was skipped for want of DATABASE_URL), and a step that starts
\* one call starts no other.
C15_FetchSummarizePersistNotify ==
    [][\A r \in Slots :
          LET q  == reqs[r]
              q2 == reqs'[r]
          IN  (variant = "A" /\ q2.route = "ingest") =>
                /\ q2.fetches > q.fetches
                      => /\ q2.fetches = q.fetches + 1
                         /\ q.pc \in {"idle", "await_oembed"}
                         /\ Outstanding(q2) = {"fetch"}
                         /\ q2.calls = 0 /\ q2.inserts = 0 /\ q2.sends = 0
                /\ q2.calls > q.calls
                      => /\ q2.calls = q.calls + 1
                         /\ q.pc \in {"idle", "await_oembed", "await_synd", "await_delay"}
                         /\ Outstanding(q2) = {"summarize"}
                         /\ q2.text # ""
                         /\ q2.fetches = q.fetches
                         /\ q2.inserts = 0 /\ q2.sends = 0
                /\ q2.inserts > q.inserts
                      => /\ q2.inserts = 1
                         /\ q.pc = "await_gemini"
                         /\ q2.summarized
                         /\ Outstanding(q2) = {"persist"}
                         /\ q2.calls = q.calls /\ q2.fetches = q.fetches
                         /\ q2.sends = 0
                /\ q2.sends > q.sends
                      => /\ q2.sends = 1
                         /\ \/ q.pc = "await_insert"
                            \/ q.pc = "await_gemini" /\ ~DATABASE_URL
                         /\ q2.summarized
                         /\ Outstanding(q2) = {"notify"}
                         /\ q2.inserts = q.inserts
                         /\ q2.calls = q.calls /\ q2.fetches = q.fetches]_vars

C15_Witness ==
    \E r \in Slots :
        /\ variant = "A"
        /\ reqs[r].pc = "done"
        /\ reqs[r].fetches = 2
        /\ reqs[r].calls = 2
        /\ reqs[r].inserts = 1
        /\ reqs[r].sends = 1
        /\ reqs[r].status = 200

\* C18: in every state of a callGeminiSummary invocation at most 5 delays
\* have been started and at most 40000 ms waited; a delay is running only
\* after a failed call that was not the sixth, with as many delays started as
\* calls failed; while a call is outstanding and after the invocation ended,
\* in a result or in the error, the delays started are those completed, one
\* between each failed call and the call after it, so none follows the sixth
\* failure or the successful call.
C18_DelaysOnlyBetweenAttempts ==
    \A r \in Slots :
        LET q == reqs[r]
        IN  (variant = "A" /\ q.route = "ingest") =>
              /\ q.delays <= MAX_RETRIES
              /\ q.waited <= MAX_RETRIES * delay
              /\ q.waited <= 40000
              /\ q.pc = "await_delay"
                    => /\ q.attempt \in 1..MAX_RETRIES
                       /\ q.delays = q.attempt
                       /\ q.calls = q.attempt
                       /\ q.waited = delay * (q.delays - 1)
                       /\ ~q.summarized
              /\ q.pc = "await_gemini"
                    => /\ q.delays = q.attempt
                       /\ q.calls = q.delays + 1
                       /\ q.waited = delay * q.delays
              /\ q.summarized
                    => /\ q.delays = q.attempt
                       /\ q.calls = q.delays + 1
                       /\ q.waited = delay * q.delays
              /\ q.attempt > MAX_RETRIES
                    => /\ q.pc = "done"
                       /\ q.delays = MAX_RETRIES
                       /\ q.calls = MAX_RETRIES + 1
                       /\ q.waited = delay * MAX_RETRIES

C18_Witness ==
    \E r \in Slots :
        /\ reqs[r].pc = "done"
        /\ reqs[r].attempt = 6
        /\ reqs[r].delays = 5
        /\ reqs[r].waited = 40000
        /\ reqs[r].status = 500

PrimaryFailed == {"neterr", "badjson", "not_ok", "no_match"}

\* C17: a fetchTweetText call whose primary lookup failed or matched no
\* paragraph has issued the secondary lookup, and a call that returned the
\* empty string (the request is answered 400 for want of text) has issued both
\* lookups and got no text field from the secondary one.
C17_SecondaryLookupAlwaysTried ==
    \A r \in Slots :
        LET q == reqs[r]
        IN  (variant = "A" /\ q.route = "ingest" /\ q.fetches > 0) =>
              /\ q.oembed \in PrimaryFailed => q.fetches = 2
              /\ (q.pc = "done" /\ q.text = "")
                    => /\ q.fetches = 2
                       /\ q.synd \in SyndOutcomes \ {"text"}

\* C13: a GET /feed answered 200 carries min(50, size of the table) rows, at
\* most 50, in non-increasing order of created_at; each is a row of the table,
\* no row twice, and no row of the table left out is newer than a row
\* returned.  (SpecFeed: tables of up to MaxRows rows of distinct tweet_url.)
C13_FeedNewestFirstAtMost50 ==
    \A r \in Slots :
        LET q == reqs[r]
            n == Len(q.feed)
        IN  (q.route = "feed" /\ q.pc = "done" /\ q.status = 200) =>
              /\ n <= 50
              /\ n = IF Len(store) < 50 THEN Len(store) ELSE 50
              /\ \A k \in 1..(n - 1) : q.feed[k].created_at >= q.feed[k + 1].created_at
              /\ \A k \in 1..n : \E i \in DOMAIN store : q.feed[k] = Columns(store[i])
              /\ Cardinality(FeedUrls(q.feed)) = n
              /\ \A i \in DOMAIN store :
                    store[i].tweet_url \notin FeedUrls(q.feed)
                       => \A k \in 1..n : store[i].created_at <= q.feed[k].created_at

C13_Witness ==
    \E r \in Slots :
        /\ reqs[r].route = "feed"
        /\ reqs[r].status = 200
        /\ Len(store) = 52
        /\ Len(reqs[r].feed) = 50
        /\ reqs[r].feed[1].created_at = 52
        /\ reqs[r].feed[50].created_at = 3

\* saveSummaryToDB of the request q has returned.
InsertReturned(q) == q.inserts > 0 /\ q.pc \in {"await_fcm", "done"}

\* The number of the two requests r1, r2 whose insert reported true.
SavedCount(r1, r2) ==
    (IF reqs[r1].saved THEN 1 ELSE 0) + (IF reqs[r2].saved THEN 1 ELSE 0)

\* C14 as stated: once two concurrent requests for one URL that was not in
\* the store have both had their insert return, at most one reported true,
\* neither has an error, and the store holds exactly one record of the URL.
C14_ConcurrentInsertsOneRecord ==
    \A r1 \in Slots, r2 \in Slots :
        (r1 < r2 /\ reqs[r1].url = reqs[r2].url
                 /\ InsertReturned(reqs[r1]) /\ InsertReturned(reqs[r2]))
           => /\ SavedCount(r1, r2) <= 1
              /\ reqs[r1].error = "" /\ reqs[r2].error = ""
              /\ Cardinality(RowsWithUrl(store, reqs[r1].url)) = 1

\* C14, amended: for two concurrent requests of variant A for one URL that was
\* not in the store, at every moment at most one insert has reported true,
\* neither request has an error, and the store holds as many records of the
\* URL as inserts reported true (none or one), the record carrying the summary
\* of the request that reported true; once both inserts have returned and
\* neither query failed, exactly one reported true and exactly one record of
\* the URL exists.
C14_ConcurrentInsertsAtMostOneRecord ==
    \A r1 \in Slots, r2 \in Slots :
        (variant = "A" /\ r1 < r2 /\ reqs[r1].url = reqs[r2].url) =>
           LET rows == RowsWithUrl(store, reqs[r1].url)
           IN  /\ SavedCount(r1, r2) <= 1
               /\ reqs[r1].error = "" /\ reqs[r2].error = ""
               /\ reqs[r1].status \in {0, 200} /\ reqs[r2].status \in {0, 200}
               /\ Cardinality(rows) = SavedCount(r1, r2)
               /\ \A r \in {r1, r2} :
                     reqs[r].saved => \A i \in rows : store[i].summary_text = reqs[r].summary
               /\ (/\ InsertReturned(reqs[r1]) /\ InsertReturned(reqs[r2])
                   /\ reqs[r1].insertErr = "" /\ reqs[r2].insertErr = "")
                     => /\ SavedCount(r1, r2) = 1
                        /\ Cardinality(rows) = 1

C14_Witness ==
    /\ reqs[1].url = reqs[2].url
    /\ reqs[1].pc = "done" /\ reqs[2].pc = "done"
    /\ reqs[2].saved
    /\ ~reqs[1].saved
    /\ reqs[1].insertErr = "" /\ reqs[2].insertErr = ""
    /\ reqs[1].inserts = 1
    /\ reqs[1].status = 200 /\ reqs[2].status = 200
    /\ Len(store) = 1

====
